---------------------------- MODULE Spec2Model ----------------------------
(***************************************************************************)
(* A model of tinkoff_client.py: the wrapper services AccountService,      *)
(* MarketDataService, TradeService and PortfolioService.  The wrapper      *)
(* keeps no state between calls (only the token), so the state is the call *)
(* in progress: which operation, its arguments, the locals it holds, the   *)
(* interactions it had with the broker, and what it returned or raised.    *)
(* What the broker answers is an input, drawn from small sets.             *)
(*                                                                         *)
(* Optional values (Python None) are sequences: <<>> is None, <<v>> is v.  *)
(* The broker's fixed-point values are records [units, nano]; a Python     *)
(* float or Decimal is an integer count of ticks of 1/200 of a unit, which *)
(* is exact for every value the model draws.                               *)
(***************************************************************************)
EXTENDS Integers, Sequences, FiniteSets, TLC

VARIABLES pc, op, locals, log, result

vars == <<pc, op, locals, log, result>>

(***************************************************************************)
(* Bounds of the model.                                                    *)
(***************************************************************************)
MaxAccounts == 2

\* The longest span asked of get_history, in maximum windows of the interval.
MaxChunks == 3

\* The most positions of a portfolio, and operations of a period.
MaxPositions == 2

(***************************************************************************)
(* Results of a call and the interactions with the broker.                 *)
(***************************************************************************)
NoErr == [kind |-> "", about |-> ""]

Ok(v, l) == [status |-> "ok", err |-> NoErr, val |-> v, log |-> l]

Raise(kind, about, l) ==
  [status |-> "raise", err |-> [kind |-> kind, about |-> about], val |-> <<>>, log |-> l]

\* A broker-reported failure: propagated as it is.
RequestError(l) == Raise("RequestError", "", l)

\* `with Client(self.token) as client:` opens a session; leaving the block,
\* by return or by exception, closes it.
Open == [ev |-> "open", api |-> "", arg |-> <<>>]
Close == [ev |-> "close", api |-> "", arg |-> <<>>]
Call(api) == [ev |-> "call", api |-> api, arg |-> <<>>]
CallWith(api, a) == [ev |-> "call", api |-> api, arg |-> <<a>>]

Calls(l) == SelectSeq(l, LAMBDA e : e.ev = "call")
CallsOf(l, api) == SelectSeq(l, LAMBDA e : e.ev = "call" /\ e.api = api)
Opens(l) == SelectSeq(l, LAMBDA e : e.ev = "open")

(***************************************************************************)
(* pandas tables, as far as the wrapper uses them.                         *)
(***************************************************************************)
\* pd.DataFrame(rows): the columns are the keys of the row dicts, so a table
\* built from no rows has no columns.
DataFrame(rows, keys) ==
  IF rows = <<>> THEN [columns |-> <<>>, rows |-> <<>>]
  ELSE [columns |-> keys, rows |-> rows]

\* pd.DataFrame(columns=[...])
DataFrameColumns(cols) == [columns |-> cols, rows |-> <<>>]

HasColumn(df, c) == \E i \in 1..Len(df.columns) : df.columns[i] = c

\* df.empty
Empty(df) == Len(df.rows) = 0 \/ Len(df.columns) = 0

ColumnSet(df) == {df.columns[i] : i \in 1..Len(df.columns)}

(***************************************************************************)
(* AccountService                                                          *)
(***************************************************************************)
NanoPerUnit == 1000000000

TicksPerUnit == 2 * 100

NanoPerTick == NanoPerUnit \div TicksPerUnit

\* float(q.units) + float(q.nano) / 1e9
units_nano_to_float(q) == q.units * TicksPerUnit + q.nano \div NanoPerTick

AccountColumns == <<"ID", "NAME", "OPENED_AT", "BALANCE_RUB">>

\* What the broker may list: two accounts of one name, and one whose name
\* differs from theirs in case only.
BrokerAccounts ==
  { [id |-> "acc1", name |-> "Algo-Trade", opened_date |-> <<20240115>>, units |-> 1000, nano |-> 500000000],
    [id |-> "acc2", name |-> "Algo-Trade", opened_date |-> <<>>, units |-> 0, nano |-> 0],
    [id |-> "acc3", name |-> "algo-trade", opened_date |-> <<20250301>>, units |-> 7, nano |-> 5000000] }

SeqsUpTo(S, n) == UNION {[1..k -> S] : k \in 0..n}

\* The answers to users.get_accounts and to the get_portfolio calls that
\* follow it: pf_fail = i > 0 is the i-th get_portfolio call failing.
AccountResponses ==
  {[ok |-> FALSE, accounts |-> <<>>, pf_fail |-> 0]}
  \cup UNION {{[ok |-> TRUE, accounts |-> a, pf_fail |-> f] : f \in 0..Len(a)} :
                 a \in SeqsUpTo(BrokerAccounts, MaxAccounts)}

AccountNames == {"Algo-Trade", "algo-trade", "Stocks"}

AccountRow(acc) ==
  [ID |-> acc.id, NAME |-> acc.name, OPENED_AT |-> acc.opened_date,
   BALANCE_RUB |-> units_nano_to_float(acc)]

get_accounts(resp) ==
  LET n == Len(resp.accounts)
      failed == resp.pf_fail \in 1..n
      seen == IF failed THEN resp.pf_fail ELSE n
      l == <<Open, Call("users.get_accounts")>>
             \o [i \in 1..seen |-> Call("operations.get_portfolio")]
             \o <<Close>>
  IN IF ~resp.ok THEN RequestError(<<Open, Call("users.get_accounts"), Close>>)
     ELSE IF failed THEN RequestError(l)
     ELSE Ok(DataFrame([i \in 1..n |-> AccountRow(resp.accounts[i])], AccountColumns), l)

get_account_id_first(rows) == rows[1]

get_account_id(name, resp) ==
  LET r == get_accounts(resp)
      accounts == r.val
      match == SelectSeq(accounts.rows, LAMBDA row : row.NAME = name)
  IN IF r.status = "raise" THEN r
     ELSE IF ~HasColumn(accounts, "NAME") THEN Raise("KeyError", "NAME", r.log)
     ELSE IF match = <<>> THEN Raise("ValueError", name, r.log)
     ELSE Ok(get_account_id_first(match).ID, r.log)

\* The interactions of r, after those in l.
After(l, r) == [r EXCEPT !.log = l \o r.log]

(***************************************************************************)
(* tinkoff.invest.utils: a Quotation is [units, nano].                     *)
(***************************************************************************)
quotation_to_decimal(q) == q.units * TicksPerUnit + q.nano \div NanoPerTick

\* int(d // 1) and int((d % 1) * 10^9) on a Decimal: both round towards zero
\* and take the sign of d.
decimal_to_quotation(d) ==
  IF d >= 0
  THEN [units |-> d \div TicksPerUnit, nano |-> (d % TicksPerUnit) * NanoPerTick]
  ELSE [units |-> 0 - ((0 - d) \div TicksPerUnit),
        nano |-> 0 - (((0 - d) % TicksPerUnit) * NanoPerTick)]

(***************************************************************************)
(* MarketDataService.get_figi                                              *)
(***************************************************************************)
\* str.upper() and str.lower() on the strings the model uses.
upper(s) ==
  CASE s = "sber" -> "SBER"
    [] s = "sell" -> "SELL"
    [] s = "buy" -> "BUY"
    [] s = "rub" -> "RUB"
    [] s = "usd" -> "USD"
    [] OTHER -> s

lower(s) ==
  CASE s = "Share" -> "share"
    [] s = "Bond" -> "bond"
    [] s = "BOND" -> "bond"
    [] OTHER -> s

Tickers == {"SBER", "sber"}

SBER == [ticker |-> "SBER", figi |-> "BBG004730N88", kind |-> "share"]
SBERP == [ticker |-> "SBERP", figi |-> "BBG0047315Y7", kind |-> "share"]
SBER2 == [ticker |-> "SBER", figi |-> "TCS00A0ZZZZ0", kind |-> "share"]
OFZ == [ticker |-> "SU26238RMFS4", figi |-> "BBG011FJ4HS6", kind |-> "bond"]

\* The answers to instruments.shares and to instruments.find_instrument.
InstrumentResponses ==
  { [ok |-> FALSE, instruments |-> <<>>],
    [ok |-> TRUE, instruments |-> <<>>],
    [ok |-> TRUE, instruments |-> <<SBERP, SBER, SBER2>>],
    [ok |-> TRUE, instruments |-> <<SBERP, OFZ>>] }

\* next((i for i in instruments if cond(i)), None)
first_match(hits) == IF hits = <<>> THEN <<>> ELSE <<hits[1]>>

get_figi(ticker0, instrument_type, resp) ==
  LET ticker == upper(ticker0)
      share == lower(instrument_type) = "share"
      bond == lower(instrument_type) = "bond"
      api == IF share THEN "instruments.shares" ELSE "instruments.find_instrument"
      l == <<Open, Call(api), Close>>
      inst == IF share
              THEN first_match(SelectSeq(resp.instruments, LAMBDA i : i.ticker = ticker))
              ELSE first_match(SelectSeq(resp.instruments, LAMBDA i : i.kind = "bond"))
  IN IF ~share /\ ~bond THEN Raise("UnboundLocalError", "inst", <<Open, Close>>)
     ELSE IF ~resp.ok THEN RequestError(l)
     ELSE IF inst = <<>> THEN Raise("ValueError", ticker, l)
     ELSE Ok(inst[1].figi, l)

(***************************************************************************)
(* MarketDataService.convert_currency                                      *)
(***************************************************************************)
Quote(u, n) == [units |-> u, nano |-> n]

\* _money_to_float: 0.0 for no value.
money_to_float(m) == IF m = <<>> THEN 0 ELSE units_nano_to_float(m[1])

\* a * b on floats.
float_mul(a, b) == (a * b) \div TicksPerUnit

\* _FX_TICKERS.get((from_currency, to_currency)): None when not wired.
FX_TICKERS(from_currency, to_currency) ==
  CASE from_currency = "USD" /\ to_currency = "RUB" -> <<"USD000UTSTOM">>
    [] from_currency = "EUR" /\ to_currency = "RUB" -> <<"EUR_RUB__TOM">>
    [] OTHER -> <<>>

Currencies == {"RUB", "rub", "USD", "usd", "EUR", "CNY"}

\* The amount argument: None, 0, 100, 2.5
Amounts == {<<>>, <<0>>, <<100 * TicksPerUnit>>, <<5 * (TicksPerUnit \div 2)>>}

\* The answers to instruments.find_instrument and market_data.get_last_prices
\* for a currency instrument.
FxResponses ==
  { [found |-> "fail", priced |-> "fail", price |-> <<>>],
    [found |-> "none", priced |-> "fail", price |-> <<>>],
    [found |-> "ok", priced |-> "fail", price |-> <<>>],
    [found |-> "ok", priced |-> "none", price |-> <<>>],
    [found |-> "ok", priced |-> "ok", price |-> <<>>],
    [found |-> "ok", priced |-> "ok", price |-> <<Quote(90, 500000000)>>] }

convert_currency_same_truthy(amount) ==
  IF amount # <<>> /\ amount[1] # 0 THEN amount[1] ELSE TicksPerUnit

\* return amount if amount is not None else 1.0
convert_currency_same(amount) == IF amount # <<>> THEN amount[1] ELSE TicksPerUnit

convert_currency(from_currency0, to_currency0, amount, resp) ==
  LET from_currency == upper(from_currency0)
      to_currency == upper(to_currency0)
      ticker == FX_TICKERS(from_currency, to_currency)
      find == <<Open, Call("instruments.find_instrument")>>
      last == find \o <<Call("market_data.get_last_prices")>>
      rate == money_to_float(resp.price)
  IN IF from_currency = to_currency THEN Ok(convert_currency_same(amount), <<>>)
     ELSE IF ticker = <<>>
     THEN Raise("ValueError", from_currency, <<>>)
     ELSE IF resp.found = "fail" THEN RequestError(find \o <<Close>>)
     ELSE IF resp.found = "none" THEN Raise("IndexError", "instruments", find \o <<Close>>)
     ELSE IF resp.priced = "fail" THEN RequestError(last \o <<Close>>)
     ELSE IF resp.priced = "none" THEN Raise("IndexError", "last_prices", last \o <<Close>>)
     ELSE IF amount # <<>> THEN Ok(float_mul(amount[1], rate), last \o <<Close>>)
     ELSE Ok(rate, last \o <<Close>>)

(***************************************************************************)
(* MarketDataService.get_current_price                                     *)
(***************************************************************************)
\* The answers to market_data.get_order_book(depth=1).
OrderBooks ==
  {[ok |-> FALSE, last_price |-> <<>>, bids |-> <<>>, asks |-> <<>>]}
  \cup [ok : {TRUE},
        last_price : {<<>>, <<Quote(306, 0)>>, <<Quote(0, 0)>>},
        bids : {<<>>, <<[price |-> Quote(305, 990000000), quantity |-> 12]>>},
        asks : {<<>>, <<[price |-> Quote(306, 20000000), quantity |-> 7]>>}]

current_price_of_bid_first(ticker, orderbook) ==
  IF orderbook.last_price # <<>> THEN Ok(quotation_to_decimal(orderbook.last_price[1]), <<>>)
  ELSE IF orderbook.bids # <<>> THEN Ok(quotation_to_decimal(orderbook.bids[1].price), <<>>)
  ELSE IF orderbook.asks # <<>> THEN Ok(quotation_to_decimal(orderbook.asks[1].price), <<>>)
  ELSE Raise("ValueError", ticker, <<>>)

\* What get_current_price makes of the order book it got.
current_price_of(ticker, orderbook) ==
  LET bid_price == IF orderbook.bids # <<>>
                   THEN <<quotation_to_decimal(orderbook.bids[1].price)>> ELSE <<>>
      ask_price == IF orderbook.asks # <<>>
                   THEN <<quotation_to_decimal(orderbook.asks[1].price)>> ELSE <<>>
  IN IF orderbook.last_price # <<>>
     THEN Ok(quotation_to_decimal(orderbook.last_price[1]), <<>>)
     ELSE IF bid_price # <<>> /\ ask_price # <<>>
     THEN Ok((bid_price[1] + ask_price[1]) \div 2, <<>>)
     ELSE IF bid_price # <<>> THEN Ok(bid_price[1], <<>>)
     ELSE IF ask_price # <<>> THEN Ok(ask_price[1], <<>>)
     ELSE Raise("ValueError", ticker, <<>>)

get_current_price(ticker, instruments, orderbook) ==
  LET r == get_figi(ticker, "share", instruments)
      l == r.log \o <<Open, Call("market_data.get_order_book"), Close>>
  IN IF r.status = "raise" THEN r
     ELSE IF ~orderbook.ok THEN RequestError(l)
     ELSE After(l, current_price_of(ticker, orderbook))

(***************************************************************************)
(* MarketDataService.get_history.  Time is counted in hours.               *)
(***************************************************************************)
Day == 24

_INTERVAL_MAP == {"1m", "5m", "15m", "1h", "1d", "1w", "1mo"}

max_range(interval) ==
  CASE interval = "1m" -> 1 * Day
    [] interval = "5m" -> 7 * Day
    [] interval = "15m" -> 30 * Day
    [] interval = "1h" -> 30 * Day
    [] interval = "1d" -> 365 * Day
    [] interval = "1w" -> 365 * 5 * Day
    [] interval = "1mo" -> 365 * 10 * Day

HistoryColumns == <<"time", "open", "high", "low", "close", "volume">>

min(a, b) == IF a <= b THEN a ELSE b

history_cur_to_unclamped(cur_from, step, to_date) == cur_from + step

history_cur_to(cur_from, step, to_date) == min(cur_from + step, to_date)

history_row(c) ==
  [time |-> c.time,
   open |-> units_nano_to_float(c.open), high |-> units_nano_to_float(c.high),
   low |-> units_nano_to_float(c.low), close |-> units_nano_to_float(c.close),
   volume |-> c.volume]

\* DataFrame.drop_duplicates(subset="time"): of the rows of one time, the
\* first stays.
RECURSIVE drop_duplicates(_)
drop_duplicates(rows) ==
  IF rows = <<>> THEN <<>>
  ELSE LET n == Len(rows)
           init == drop_duplicates(SubSeq(rows, 1, n - 1))
       IN IF \E i \in 1..(n - 1) : rows[i].time = rows[n].time
          THEN init ELSE Append(init, rows[n])

\* DataFrame.sort_values(key, ascending=...).reset_index(drop=True), as an
\* insertion sort: a row goes after the rows it does not come before.
RECURSIVE insert_sorted(_, _, _, _)
insert_sorted(rows, r, key, ascending) ==
  IF rows = <<>> THEN <<r>>
  ELSE IF (IF ascending THEN r[key] < Head(rows)[key] ELSE r[key] > Head(rows)[key])
       THEN <<r>> \o rows
  ELSE <<Head(rows)>> \o insert_sorted(Tail(rows), r, key, ascending)

RECURSIVE sort_rows(_, _, _)
sort_rows(rows, key, ascending) ==
  IF rows = <<>> THEN <<>>
  ELSE insert_sorted(sort_rows(SubSeq(rows, 1, Len(rows) - 1), key, ascending),
                     rows[Len(rows)], key, ascending)

\* KeyError when the table has no such column.
sort_values(df, key, ascending) == [df EXCEPT !.rows = sort_rows(df.rows, key, ascending)]

history_table_no_dedup(all_rows) ==
  IF all_rows = <<>> THEN DataFrameColumns(HistoryColumns)
  ELSE sort_values(DataFrame(all_rows, HistoryColumns), "time", TRUE)

history_table_untyped_empty(all_rows) ==
  LET df == DataFrame(all_rows, HistoryColumns)
  IN sort_values([df EXCEPT !.rows = drop_duplicates(df.rows)], "time", TRUE)

history_table(all_rows) ==
  IF all_rows = <<>> THEN DataFrameColumns(HistoryColumns)
  ELSE LET df == DataFrame(all_rows, HistoryColumns)
       IN sort_values([df EXCEPT !.rows = drop_duplicates(df.rows)], "time", TRUE)

Intervals == _INTERVAL_MAP \cup {"2h"}

HistoryFrom == {0, 1000}

\* to_date - from_date, for an interval whose maximum window is step.
HistorySpans(step) ==
  {0 - 1, 0, 1, step - 1, step, step + 1, (MaxChunks - 1) * step + 1, MaxChunks * step}

Candle(t, volume) ==
  [time |-> t, open |-> Quote(306, 0), high |-> Quote(307, 500000000),
   low |-> Quote(305, 250000000), close |-> Quote(306, 750000000), volume |-> volume]

\* The answers to market_data.get_candles(from_, to): candles at the two ends
\* of the span asked for, in either order, once or twice; none; a failure.
CandleResponses(from_, to) ==
  LET F == Candle(from_, 100)
      L == Candle(to, 200)
  IN {[ok |-> FALSE, candles |-> <<>>]}
     \cup {[ok |-> TRUE, candles |-> c] : c \in {<<>>, <<F>>, <<L>>, <<F, L>>, <<L, F>>, <<F, F>>}}

get_candles_request(loc, cur_to) ==
  CallWith("market_data.get_candles",
           [figi |-> loc.figi[1], from_ |-> loc.cur_from, to |-> cur_to,
            interval |-> loc.interval])

\* One pass of the loop body: the rows of the chunk are appended, and the
\* next chunk starts where this one ended.
get_history_chunk(loc, cur_to, candles) ==
  [loc EXCEPT !.all_rows = @ \o [i \in 1..Len(candles) |-> history_row(candles[i])],
              !.received = @ \o [i \in 1..Len(candles) |-> candles[i].time],
              !.cur_from = cur_to]

(***************************************************************************)
(* TradeService: _place_order, buy, sell                                   *)
(***************************************************************************)
Quantities == {-1, 0, 1, 10}

\* The price argument: None, -1, 0, 306, 306.505
Prices == {<<>>, <<0 - TicksPerUnit>>, <<0>>, <<306 * TicksPerUnit>>, <<306 * TicksPerUnit + 101>>}

\* The answers to orders.post_order.
PostOrderResponses ==
  { [ok |-> FALSE, order_id |-> ""],
    [ok |-> TRUE, order_id |-> "R-1001"],
    [ok |-> TRUE, order_id |-> "R-1002"] }

place_order_type_always_limit(price) == "ORDER_TYPE_LIMIT"

place_order_type(price) ==
  IF price = <<>> THEN "ORDER_TYPE_MARKET" ELSE "ORDER_TYPE_LIMIT"

place_order_price_q(price) ==
  IF price = <<>> THEN <<>> ELSE <<decimal_to_quotation(price[1])>>

place_order(account, figi, quantity, direction, price, resp) ==
  LET order_type == place_order_type(price)
      price_q == place_order_price_q(price)
      l == << Open,
              CallWith("orders.post_order",
                       [figi |-> figi, quantity |-> quantity, account_id |-> account,
                        direction |-> direction, order_type |-> order_type,
                        price |-> price_q]),
              Close >>
  IN IF quantity <= 0 THEN Raise("ValueError", "quantity", <<>>)
     ELSE IF price # <<>> /\ price[1] <= 0 THEN Raise("ValueError", "price", <<>>)
     ELSE IF ~resp.ok THEN RequestError(l)
     ELSE Ok([order_id |-> resp.order_id], l)

\* buy and sell differ in the direction alone.
place(direction, account, ticker, quantity, price, accounts, instruments, posted) ==
  LET r1 == get_account_id(account, accounts)
      r2 == After(r1.log, get_figi(ticker, "share", instruments))
      r3 == After(r2.log, place_order(r1.val, r2.val, quantity, direction, price, posted))
  IN IF r1.status = "raise" THEN r1
     ELSE IF r2.status = "raise" THEN r2
     ELSE IF r3.status = "raise" THEN r3
     ELSE Ok(r3.val.order_id, r3.log)

buy(account, ticker, quantity, price, accounts, instruments, posted) ==
  place("ORDER_DIRECTION_BUY", account, ticker, quantity, price, accounts, instruments, posted)

sell(account, ticker, quantity, price, accounts, instruments, posted) ==
  place("ORDER_DIRECTION_SELL", account, ticker, quantity, price, accounts, instruments, posted)

(***************************************************************************)
(* MarketDataService.get_ticker                                            *)
(***************************************************************************)
\* The answers to instruments.get_instrument_by: a ticker, or none.
TickerOf(t) == [ok |-> TRUE, ticker |-> <<t>>]
NoTicker == [ok |-> TRUE, ticker |-> <<>>]
TickerFails == [ok |-> FALSE, ticker |-> <<>>]

\* get_ticker with a client that is closed by hand after the answer: a
\* failure of the broker leaves the session open.
get_ticker_leaks_session(figi, resp) ==
  LET l == <<Open, Call("instruments.get_instrument_by"), Close>>
  IN IF figi = "" THEN Ok(<<>>, <<>>)
     ELSE IF ~resp.ok THEN RequestError(<<Open, Call("instruments.get_instrument_by")>>)
     ELSE IF resp.ticker = <<>> THEN Raise("ValueError", figi, l)
     ELSE Ok(resp.ticker, l)

\* The callers ask only for a figi that is not empty, as get_ticker itself does.
get_ticker(figi, resp) ==
  LET l == <<Open, Call("instruments.get_instrument_by"), Close>>
  IN IF figi = "" THEN Ok(<<>>, <<>>)
     ELSE IF ~resp.ok THEN RequestError(l)
     ELSE IF resp.ticker = <<>> THEN Raise("ValueError", figi, l)
     ELSE Ok(resp.ticker, l)

\* The tickers of items[1..n], one get_ticker call each, up to the first that
\* raises: the result of the last call made, after the interactions of all.
RECURSIVE get_tickers(_, _)
get_tickers(items, n) ==
  IF n = 0 THEN Ok(<<>>, <<>>)
  ELSE LET before == get_tickers(items, n - 1)
           this == get_ticker(items[n].figi, items[n].ticker)
       IN IF before.status = "raise" THEN before
          ELSE IF this.status = "raise" THEN After(before.log, this)
          ELSE Ok(Append(before.val, this.val), before.log \o this.log)

(***************************************************************************)
(* PortfolioService: get_positions, get_operations_history                 *)
(***************************************************************************)
\* _quotation_to_float: 0.0 for no value.
quotation_to_float(q) == IF q = <<>> THEN 0 ELSE quotation_to_decimal(q[1])

PositionColumns ==
  <<"figi", "ticker", "instrument_type", "quantity", "average_price", "current_price",
    "expected_yield", "return_pct">>

\* (current_price - avg_price) / avg_price * 100 if avg_price > 0 else 0.0
return_pct(current_price, avg_price) ==
  IF avg_price > 0
  THEN ((current_price - avg_price) * 100 * TicksPerUnit) \div avg_price
  ELSE 0

\* The positions the broker may hold: a bond, a share, money (no figi), and a
\* share whose instrument has no ticker.
BrokerPositions ==
  { [figi |-> "BBG011FJ4HS6", instrument_type |-> "bond", ticker |-> TickerOf("SU26238RMFS4"),
     quantity |-> <<Quote(10, 0)>>, average_position_price |-> <<Quote(95, 500000000)>>,
     current_price |-> <<Quote(96, 0)>>, expected_yield |-> <<Quote(5, 0)>>],
    [figi |-> "BBG004730N88", instrument_type |-> "share", ticker |-> TickerOf("SBER"),
     quantity |-> <<Quote(5, 0)>>, average_position_price |-> <<Quote(300, 0)>>,
     current_price |-> <<Quote(306, 0)>>, expected_yield |-> <<Quote(30, 0)>>],
    [figi |-> "", instrument_type |-> "currency", ticker |-> NoTicker,
     quantity |-> <<Quote(1000, 500000000)>>, average_position_price |-> <<>>,
     current_price |-> <<Quote(1, 0)>>, expected_yield |-> <<Quote(0, 0)>>],
    [figi |-> "TCS00A0ZZZZ0", instrument_type |-> "share", ticker |-> NoTicker,
     quantity |-> <<Quote(1, 0)>>, average_position_price |-> <<Quote(10, 0)>>,
     current_price |-> <<Quote(9, 0)>>, expected_yield |-> <<Quote(0 - 1, 0)>>],
    [figi |-> "BBG000B9XRY4", instrument_type |-> "share", ticker |-> TickerFails,
     quantity |-> <<Quote(2, 0)>>, average_position_price |-> <<Quote(150, 0)>>,
     current_price |-> <<Quote(151, 0)>>, expected_yield |-> <<Quote(2, 0)>>] }

\* The answers to operations.get_portfolio(account_id).
PortfolioResponses ==
  {[ok |-> FALSE, positions |-> <<>>]}
  \cup {[ok |-> TRUE, positions |-> p] : p \in SeqsUpTo(BrokerPositions, MaxPositions)}

position_row(pos, ticker) ==
  LET avg_price == quotation_to_float(pos.average_position_price)
      current_price == quotation_to_float(pos.current_price)
  IN [figi |-> pos.figi, ticker |-> ticker, instrument_type |-> pos.instrument_type,
      quantity |-> quotation_to_float(pos.quantity),
      average_price |-> avg_price, current_price |-> current_price,
      expected_yield |-> quotation_to_float(pos.expected_yield),
      return_pct |-> return_pct(current_price, avg_price)]

positions_table(rows) ==
  LET df == DataFrame(rows, PositionColumns)
  IN IF Empty(df) THEN df ELSE sort_values(df, "expected_yield", FALSE)

get_positions(account, accounts, portfolio) ==
  LET r1 == get_account_id(account, accounts)
      asked == r1.log \o <<Open, Call("operations.get_portfolio")>>
      n == Len(portfolio.positions)
      tickers == get_tickers(portfolio.positions, n)
      closed == asked \o tickers.log \o <<Close>>
  IN IF r1.status = "raise" THEN r1
     ELSE IF ~portfolio.ok THEN RequestError(asked \o <<Close>>)
     ELSE IF tickers.status = "raise" THEN [tickers EXCEPT !.log = closed]
     ELSE Ok(positions_table([i \in 1..n |-> position_row(portfolio.positions[i], tickers.val[i])]),
             closed)

\* _OPERATION_TYPE_MAP.get(name): None for a type that is not mapped.
OPERATION_TYPE_MAP(name) ==
  CASE name = "OPERATION_TYPE_BUY" -> <<"BUY">>
    [] name = "OPERATION_TYPE_SELL" -> <<"SELL">>
    [] name = "OPERATION_TYPE_BROKER_FEE" -> <<"FEE">>
    [] name = "OPERATION_TYPE_INP_MULTI" -> <<"DEPOSIT">>
    [] name = "OPERATION_TYPE_OUT_MULTI" -> <<"WITHDRAW">>
    [] OTHER -> <<>>

OperationColumns == <<"time", "type", "ticker", "quantity", "price", "payment">>

BrokerOperations ==
  { [date |-> 20251103, operation_type |-> "OPERATION_TYPE_BUY", figi |-> "BBG004730N88",
     ticker |-> TickerOf("SBER"), quantity |-> 1, price |-> <<Quote(306, 0)>>,
     payment |-> <<Quote(0 - 306, 0)>>],
    [date |-> 20251102, operation_type |-> "OPERATION_TYPE_COUPON", figi |-> "BBG011FJ4HS6",
     ticker |-> TickerFails, quantity |-> 0, price |-> <<>>, payment |-> <<Quote(36, 900000000)>>],
    [date |-> 20251101, operation_type |-> "OPERATION_TYPE_INP_MULTI", figi |-> "",
     ticker |-> NoTicker, quantity |-> 0, price |-> <<>>, payment |-> <<Quote(1000, 0)>>] }

\* The answers to operations.get_operations(account_id, from_, to).
OperationsResponses ==
  {[ok |-> FALSE, operations |-> <<>>]}
  \cup {[ok |-> TRUE, operations |-> o] : o \in SeqsUpTo(BrokerOperations, MaxPositions)}

operation_row(o, ticker) ==
  [time |-> o.date, type |-> OPERATION_TYPE_MAP(o.operation_type), ticker |-> ticker,
   quantity |-> o.quantity, price |-> quotation_to_float(o.price),
   payment |-> quotation_to_float(o.payment)]

operations_table(rows) ==
  LET df == DataFrame(rows, OperationColumns)
  IN IF HasColumn(df, "time") THEN Ok(sort_values(df, "time", TRUE), <<>>)
     ELSE Raise("KeyError", "time", <<>>)

get_operations_history(account, accounts, ops) ==
  LET r1 == get_account_id(account, accounts)
      asked == r1.log \o <<Open, Call("operations.get_operations"), Close>>
      n == Len(ops.operations)
      tickers == After(asked, get_tickers(ops.operations, n))
  IN IF r1.status = "raise" THEN r1
     ELSE IF ~ops.ok THEN RequestError(asked)
     ELSE IF tickers.status = "raise" THEN tickers
     ELSE After(tickers.log,
                operations_table([i \in 1..n |-> operation_row(ops.operations[i], tickers.val[i])]))

(***************************************************************************)
(* MarketDataService.bond_info                                             *)
(***************************************************************************)
Pay(u, n, currency) == [units |-> u, nano |-> n, currency |-> currency]

Bond26238 ==
  [ticker |-> "SU26238RMFS4", name |-> "OFZ 26238", currency |-> "rub",
   nominal |-> <<Pay(1000, 0, "rub")>>, initial_nominal |-> <<Pay(1000, 0, "rub")>>,
   aci_value |-> <<Pay(12, 500000000, "rub")>>, coupon_quantity_per_year |-> 2,
   maturity_date |-> <<20410515>>, placement_date |-> <<20210616>>,
   floating_coupon_flag |-> FALSE, amortization_flag |-> FALSE]

Coupon(date, pay) == [coupon_date |-> date, pay_one_bond |-> pay]

FxOk == [found |-> "ok", priced |-> "ok", price |-> <<Quote(90, 500000000)>>]

\* The answers bond_info gets: to find_instrument, to bond_by, to
\* get_bond_coupons and, for a coupon in another currency, to the calls of
\* convert_currency.
BondInfoResponses ==
  { \* coupons in roubles, the later one counts
    [instruments |-> [ok |-> TRUE, instruments |-> <<SBERP, OFZ>>], bond_ok |-> TRUE,
     bond |-> Bond26238, coupons_ok |-> TRUE,
     coupons |-> << Coupon(20251203, <<Pay(35, 400000000, "rub")>>),
                    Coupon(20260603, <<Pay(36, 900000000, "rub")>>),
                    Coupon(20261202, <<Pay(0, 0, "rub")>>) >>, fx |-> FxOk],
    \* no coupon that pays
    [instruments |-> [ok |-> TRUE, instruments |-> <<OFZ>>], bond_ok |-> TRUE,
     bond |-> Bond26238, coupons_ok |-> TRUE,
     coupons |-> <<Coupon(20261202, <<>>)>>, fx |-> FxOk],
    \* a coupon in dollars
    [instruments |-> [ok |-> TRUE, instruments |-> <<OFZ>>], bond_ok |-> TRUE,
     bond |-> Bond26238, coupons_ok |-> TRUE,
     coupons |-> <<Coupon(20260603, <<Pay(3, 0, "usd")>>)>>, fx |-> FxOk],
    \* a coupon in a currency that is not wired
    [instruments |-> [ok |-> TRUE, instruments |-> <<OFZ>>], bond_ok |-> TRUE,
     bond |-> Bond26238, coupons_ok |-> TRUE,
     coupons |-> <<Coupon(20260603, <<Pay(20, 0, "cny")>>)>>, fx |-> FxOk],
    \* the search finds no bond
    [instruments |-> [ok |-> TRUE, instruments |-> <<SBERP>>], bond_ok |-> TRUE,
     bond |-> Bond26238, coupons_ok |-> TRUE, coupons |-> <<>>, fx |-> FxOk],
    \* the broker fails on bond_by
    [instruments |-> [ok |-> TRUE, instruments |-> <<OFZ>>], bond_ok |-> FALSE,
     bond |-> Bond26238, coupons_ok |-> TRUE, coupons |-> <<>>, fx |-> FxOk] }

\* max(valid_coupons, key=lambda x: x.coupon_date): the first of the latest.
last_coupon(valid_coupons) ==
  valid_coupons[CHOOSE i \in 1..Len(valid_coupons) :
                  /\ \A j \in 1..Len(valid_coupons) :
                       valid_coupons[j].coupon_date <= valid_coupons[i].coupon_date
                  /\ \A j \in 1..(i - 1) :
                       valid_coupons[j].coupon_date < valid_coupons[i].coupon_date]

bond_info_dict(bond, coupon_currency, monthly_coupon) ==
  [ticker |-> bond.ticker, name |-> bond.name, bond_currency |-> bond.currency,
   nominal_currency |-> IF bond.nominal = <<>> THEN <<>> ELSE <<bond.nominal[1].currency>>,
   coupon_currency |-> coupon_currency,
   nominal |-> money_to_float(bond.nominal),
   initial_nominal |-> money_to_float(bond.initial_nominal),
   aci_value |-> money_to_float(bond.aci_value),
   monthly_coupon |-> monthly_coupon,
   coupon_quantity_per_year |-> bond.coupon_quantity_per_year,
   maturity_date |-> bond.maturity_date, placement_date |-> bond.placement_date,
   floating_coupon |-> bond.floating_coupon_flag, amortization |-> bond.amortization_flag]

\* ticker is None for a position without figi: None.upper() raises.
bond_info(ticker, resp) ==
  LET r1 == IF ticker = <<>> THEN Raise("AttributeError", "upper", <<>>)
            ELSE get_figi(ticker[1], "bond", resp.instruments)
      by == r1.log \o <<Open, Call("instruments.bond_by")>>
      asked == by \o <<Call("instruments.get_bond_coupons"), Close>>
      valid_coupons ==
        SelectSeq(resp.coupons,
                  LAMBDA c : c.pay_one_bond # <<>>
                             /\ (c.pay_one_bond[1].units # 0 \/ c.pay_one_bond[1].nano # 0))
      last == last_coupon(valid_coupons)
      coupon_currency == last.pay_one_bond[1].currency
      converted ==
        IF coupon_currency = "RUB" THEN Ok(money_to_float(last.pay_one_bond), asked)
        ELSE After(asked, convert_currency(coupon_currency, "RUB",
                                           <<money_to_float(last.pay_one_bond)>>, resp.fx))
  IN IF r1.status = "raise" THEN r1
     ELSE IF ~resp.bond_ok THEN RequestError(by \o <<Close>>)
     ELSE IF ~resp.coupons_ok THEN RequestError(asked)
     ELSE IF valid_coupons = <<>> THEN Ok(bond_info_dict(resp.bond, <<>>, 0), asked)
     ELSE IF converted.status = "raise" THEN converted
     ELSE Ok(bond_info_dict(resp.bond, <<coupon_currency>>,
                            (converted.val * resp.bond.coupon_quantity_per_year) \div 12),
             converted.log)

(***************************************************************************)
(* PortfolioService: bonds, stocks                                         *)
(***************************************************************************)
BondColumns == <<"ticker", "name", "quantity", "average_price", "nominal", "monthly_coupon">>

BondEmptyColumns ==
  <<"ticker", "name", "quantity", "average_price", "nominal", "monthly_coupon",
    "total_monthly_coupon", "coupon_yield_pct">>

StockColumns ==
  <<"ticker", "name", "quantity", "average_price", "current_price", "unrealized_profit",
    "return_pct">>

\* df[df['instrument_type'].str.lower() == kind]
of_kind(df, kind) == SelectSeq(df.rows, LAMBDA row : lower(row.instrument_type) = kind)

bond_row(row, info) ==
  [ticker |-> row.ticker, name |-> info.name, quantity |-> row.quantity,
   average_price |-> row.average_price, nominal |-> info.nominal,
   monthly_coupon |-> info.monthly_coupon]

stock_row(row, current_price) ==
  [ticker |-> row.ticker, name |-> row.ticker, quantity |-> row.quantity,
   average_price |-> row.average_price, current_price |-> current_price,
   unrealized_profit |-> float_mul(current_price - row.average_price, row.quantity),
   return_pct |-> return_pct(current_price, row.average_price)]

\* pd.DataFrame(list).sort_values(key, ascending=False).reset_index(drop=True)
listing_table(list, columns, key) ==
  LET df == DataFrame(list, columns)
  IN IF HasColumn(df, key) THEN Ok(sort_values(df, key, FALSE), <<>>)
     ELSE Raise("KeyError", key, <<>>)

\* bonds and stocks up to the loop over the filtered positions: the result
\* when the call ends before it, <<>> when the loop is entered.
listing_start(positions, kind, empty_columns) ==
  IF positions.status = "raise" THEN <<positions>>
  ELSE IF Empty(positions.val) THEN <<positions>>
  ELSE IF of_kind(positions.val, kind) = <<>>
  THEN <<Ok(DataFrameColumns(empty_columns), positions.log)>>
  ELSE <<>>

(***************************************************************************)
(* TradeService: _place_stop_order and its four entry points               *)
(***************************************************************************)
\* The stop_price and exec_price arguments: 300, 310.5, -1.5
StopPrices == {300 * TicksPerUnit, 310 * TicksPerUnit + 100, 0 - 300}

\* The order_type argument of _place_stop_order.
StopOrderKinds == {"STOP_LOSS", "TAKE_PROFIT", "stop_loss", "TRAILING_STOP", ""}

\* The direction argument of _place_stop_order.
StopDirections == {"SELL", "BUY", "sell", "LONG"}

\* The answers to stop_orders.post_stop_order.
PostStopOrderResponses ==
  { [ok |-> FALSE, stop_order_id |-> ""],
    [ok |-> TRUE, stop_order_id |-> "S-2001"],
    [ok |-> TRUE, stop_order_id |-> "S-2002"] }

\* stop_order_type_map.get: None for a kind that is not mapped.
stop_order_type_map(order_type) ==
  CASE order_type = "STOP_LOSS" -> <<"STOP_ORDER_TYPE_STOP_LOSS">>
    [] order_type = "TAKE_PROFIT" -> <<"STOP_ORDER_TYPE_TAKE_PROFIT">>
    [] OTHER -> <<>>

stop_order_direction(direction) ==
  IF upper(direction) = "SELL" THEN "STOP_ORDER_DIRECTION_SELL"
  ELSE "STOP_ORDER_DIRECTION_BUY"

stop_order_request(account_id, figi, quantity, stop_price, exec_price, direction, order_type) ==
  [account_id |-> account_id, figi |-> figi, quantity |-> quantity,
   stop_price |-> decimal_to_quotation(stop_price),
   price |-> decimal_to_quotation(exec_price),
   direction |-> stop_order_direction(direction),
   expiration_type |-> "STOP_ORDER_EXPIRATION_TYPE_GOOD_TILL_CANCEL",
   stop_order_type |-> stop_order_type_map(order_type)[1]]

\* _place_stop_order without the check of order_type: the kind goes to the
\* broker as it was given.
place_stop_order_unchecked(account_id, figi, quantity, stop_price, exec_price, direction, order_type, resp) ==
  LET kind == IF stop_order_type_map(order_type) = <<>> THEN order_type
              ELSE stop_order_type_map(order_type)[1]
      l == << Open,
              CallWith("stop_orders.post_stop_order",
                       [account_id |-> account_id, figi |-> figi, quantity |-> quantity,
                        stop_price |-> decimal_to_quotation(stop_price),
                        price |-> decimal_to_quotation(exec_price),
                        direction |-> stop_order_direction(direction),
                        expiration_type |-> "STOP_ORDER_EXPIRATION_TYPE_GOOD_TILL_CANCEL",
                        stop_order_type |-> kind]),
              Close >>
  IN IF ~resp.ok THEN RequestError(l) ELSE Ok(resp.stop_order_id, l)

place_stop_order(account_id, figi, quantity, stop_price, exec_price, direction, order_type, resp) ==
  LET l == << Open,
              CallWith("stop_orders.post_stop_order",
                       stop_order_request(account_id, figi, quantity, stop_price, exec_price,
                                          direction, order_type)),
              Close >>
  IN IF stop_order_type_map(order_type) = <<>> THEN Raise("ValueError", "order_type", <<>>)
     ELSE IF ~resp.ok THEN RequestError(l)
     ELSE Ok(resp.stop_order_id, l)

\* The body the four entry points share: get_account_id, get_figi, then
\* _place_stop_order with the entry point's direction and kind.
place_stop(direction, order_type, account, ticker, stop_price, exec_price, quantity, accounts, instruments, posted) ==
  LET r1 == get_account_id(account, accounts)
      r2 == After(r1.log, get_figi(ticker, "share", instruments))
      r3 == After(r2.log, place_stop_order(r1.val, r2.val, quantity, stop_price, exec_price,
                                           direction, order_type, posted))
  IN IF r1.status = "raise" THEN r1
     ELSE IF r2.status = "raise" THEN r2
     ELSE r3

long_stop_loss(account, ticker, stop_price, exec_price, quantity, accounts, instruments, posted) ==
  place_stop("SELL", "STOP_LOSS", account, ticker, stop_price, exec_price, quantity,
             accounts, instruments, posted)

long_take_profit(account, ticker, stop_price, exec_price, quantity, accounts, instruments, posted) ==
  place_stop("SELL", "TAKE_PROFIT", account, ticker, stop_price, exec_price, quantity,
             accounts, instruments, posted)

\* short_stop_loss as a copy of long_stop_loss: the stop order sells.
short_stop_loss_sells(account, ticker, stop_price, exec_price, quantity, accounts, instruments, posted) ==
  place_stop("SELL", "STOP_LOSS", account, ticker, stop_price, exec_price, quantity,
             accounts, instruments, posted)

short_stop_loss(account, ticker, stop_price, exec_price, quantity, accounts, instruments, posted) ==
  place_stop("BUY", "STOP_LOSS", account, ticker, stop_price, exec_price, quantity,
             accounts, instruments, posted)

short_take_profit(account, ticker, stop_price, exec_price, quantity, accounts, instruments, posted) ==
  place_stop("BUY", "TAKE_PROFIT", account, ticker, stop_price, exec_price, quantity,
             accounts, instruments, posted)

(***************************************************************************)
(* TradeService.get_order_state                                            *)
(***************************************************************************)
\* The answers to orders.get_order_state.
OrderStateResponses ==
  { [ok |-> FALSE, status |-> "", lots_executed |-> 0, executed_order_price |-> <<>>],
    [ok |-> TRUE, status |-> "EXECUTION_REPORT_STATUS_NEW", lots_executed |-> 0,
     executed_order_price |-> <<>>],
    [ok |-> TRUE, status |-> "EXECUTION_REPORT_STATUS_FILL", lots_executed |-> 10,
     executed_order_price |-> <<Quote(306, 505000000)>>] }

get_order_state(account, order_id, accounts, state) ==
  LET r1 == get_account_id(account, accounts)
      l == r1.log \o << Open,
                        CallWith("orders.get_order_state",
                                 [account_id |-> r1.val, order_id |-> order_id]),
                        Close >>
  IN IF r1.status = "raise" THEN r1
     ELSE IF ~state.ok THEN RequestError(l)
     ELSE Ok([order_id |-> order_id, status |-> state.status,
              executed_lots |-> state.lots_executed,
              price |-> IF state.executed_order_price # <<>>
                        THEN <<quotation_to_decimal(state.executed_order_price[1])>>
                        ELSE <<>>],
             l)

(***************************************************************************)
(* The calls.  A call starts when the caller holds no call in progress,    *)
(* and ends in pc = "done" with its result; Return hands the result to the *)
(* caller.                                                                 *)
(***************************************************************************)
NoLocals == [none |-> TRUE]

Finish(name, args, loc, r) ==
  /\ pc' = "done"
  /\ op' = [name |-> name, args |-> args]
  /\ locals' = loc
  /\ log' = r.log
  /\ result' = [status |-> r.status, err |-> r.err, val |-> r.val]

GetAccounts ==
  /\ pc = "idle"
  /\ \E resp \in AccountResponses :
    Finish("get_accounts", [none |-> TRUE], [resp |-> resp], get_accounts(resp))

GetAccountId ==
  /\ pc = "idle"
  /\ \E name \in AccountNames, resp \in AccountResponses :
    Finish("get_account_id", [name |-> name], [resp |-> resp], get_account_id(name, resp))

Buy ==
  /\ pc = "idle"
  /\ \E account \in AccountNames, ticker \in Tickers, quantity \in Quantities, price \in Prices,
        accounts \in AccountResponses, instruments \in InstrumentResponses,
        posted \in PostOrderResponses :
    Finish("buy",
           [account |-> account, ticker |-> ticker, quantity |-> quantity, price |-> price],
           [posted |-> posted],
           buy(account, ticker, quantity, price, accounts, instruments, posted))

Sell ==
  /\ pc = "idle"
  /\ \E account \in AccountNames, ticker \in Tickers, quantity \in Quantities, price \in Prices,
        accounts \in AccountResponses, instruments \in InstrumentResponses,
        posted \in PostOrderResponses :
    Finish("sell",
           [account |-> account, ticker |-> ticker, quantity |-> quantity, price |-> price],
           [posted |-> posted],
           sell(account, ticker, quantity, price, accounts, instruments, posted))

ConvertCurrency ==
  /\ pc = "idle"
  /\ \E from_currency \in Currencies, to_currency \in Currencies, amount \in Amounts,
        resp \in FxResponses :
       Finish("convert_currency",
              [from_currency |-> from_currency, to_currency |-> to_currency, amount |-> amount],
              [resp |-> resp],
              convert_currency(from_currency, to_currency, amount, resp))

GetCurrentPrice ==
  /\ pc = "idle"
  /\ \E ticker \in Tickers, instruments \in InstrumentResponses, orderbook \in OrderBooks :
       Finish("get_current_price", [ticker |-> ticker], [orderbook |-> orderbook],
              get_current_price(ticker, instruments, orderbook))

\* get_history up to its loop: the instrument is resolved, then the interval
\* is checked, then the session of the loop is opened.
GetHistoryStart ==
  /\ pc = "idle"
  /\ \E ticker \in Tickers, interval \in Intervals, from_date \in HistoryFrom,
        instruments \in InstrumentResponses :
       LET r == get_figi(ticker, "share", instruments)
           steps == IF interval \in _INTERVAL_MAP THEN {max_range(interval)} ELSE {Day}
       IN \E step \in steps : \E span \in HistorySpans(step) :
            LET args == [ticker |-> ticker, from_date |-> from_date,
                         to_date |-> from_date + span, interval |-> interval]
                loc == [figi |-> IF r.status = "ok" THEN <<r.val>> ELSE <<>>, interval |-> interval, step |-> step,
                        cur_from |-> from_date, all_rows |-> <<>>, received |-> <<>>]
            IN IF r.status = "raise" THEN Finish("get_history", args, loc, r)
               ELSE IF interval \notin _INTERVAL_MAP
               THEN Finish("get_history", args, loc, Raise("ValueError", interval, r.log))
               ELSE /\ pc' = "get_history"
                    /\ op' = [name |-> "get_history", args |-> args]
                    /\ locals' = loc
                    /\ log' = r.log \o <<Open>>
                    /\ UNCHANGED result

\* while cur_from < to_date: one chunk is asked of the broker.
GetHistoryChunk ==
  /\ pc = "get_history"
  /\ locals.cur_from < op.args.to_date
  /\ LET cur_to == history_cur_to(locals.cur_from, locals.step, op.args.to_date)
     IN \E resp \in CandleResponses(locals.cur_from, cur_to) :
          IF resp.ok
          THEN /\ log' = Append(log, get_candles_request(locals, cur_to))
               /\ locals' = get_history_chunk(locals, cur_to, resp.candles)
               /\ UNCHANGED <<pc, op, result>>
          ELSE /\ log' = log \o <<get_candles_request(locals, cur_to), Close>>
               /\ pc' = "done"
               /\ result' = [status |-> "raise", err |-> [kind |-> "RequestError", about |-> ""],
                             val |-> <<>>]
               /\ UNCHANGED <<op, locals>>

\* The loop is over: the session is closed and the table is built.
GetHistoryReturn ==
  /\ pc = "get_history"
  /\ ~(locals.cur_from < op.args.to_date)
  /\ pc' = "done"
  /\ log' = Append(log, Close)
  /\ result' = [status |-> "ok", err |-> NoErr, val |-> history_table(locals.all_rows)]
  /\ UNCHANGED <<op, locals>>

GetPositions ==
  /\ pc = "idle"
  /\ \E account \in AccountNames, accounts \in AccountResponses,
        portfolio \in PortfolioResponses :
       Finish("get_positions", [account |-> account],
              [resolved |-> get_account_id(account, accounts).status = "ok",
               portfolio |-> portfolio],
              get_positions(account, accounts, portfolio))

GetOperationsHistory ==
  /\ pc = "idle"
  /\ \E account \in AccountNames, accounts \in AccountResponses,
        ops \in OperationsResponses :
       Finish("get_operations_history",
              [account |-> account, from_date |-> 20251101, to_date |-> 20260201],
              [resolved |-> get_account_id(account, accounts).status = "ok", ops |-> ops],
              get_operations_history(account, accounts, ops))

\* bonds and stocks: get_positions, the filter, and the start of the loop.
ListingStart(name, kind, empty_columns) ==
  /\ \E account \in AccountNames, accounts \in AccountResponses,
        portfolio \in PortfolioResponses :
       LET r == get_positions(account, accounts, portfolio)
           early == listing_start(r, kind, empty_columns)
           loc == [resolved |-> get_account_id(account, accounts).status = "ok",
                   portfolio |-> portfolio, looped |-> early = <<>>,
                   positions |-> IF early = <<>> THEN of_kind(r.val, kind) ELSE <<>>,
                   list |-> <<>>, enriched |-> <<>>]
       IN IF early # <<>> THEN Finish(name, [account |-> account], loc, early[1])
          ELSE /\ pc' = name
               /\ op' = [name |-> name, args |-> [account |-> account]]
               /\ locals' = loc
               /\ log' = r.log
               /\ UNCHANGED result

\* One pass of the loop: the row is enriched and appended, or the fault is
\* caught and printed and the row left out.
ListingRow(r, row) ==
  /\ log' = log \o r.log
  /\ locals' = [locals EXCEPT !.list = IF r.status = "ok" THEN Append(@, row) ELSE @,
                               !.enriched = Append(@, r.status = "ok")]
  /\ UNCHANGED <<pc, op, result>>

ListingReturn(name, columns, key) ==
  /\ Len(locals.enriched) = Len(locals.positions)
  /\ LET r == listing_table(locals.list, columns, key)
     IN /\ pc' = "done"
        /\ result' = [status |-> r.status, err |-> r.err, val |-> r.val]
        /\ UNCHANGED <<op, locals, log>>

BondsStart ==
  /\ pc = "idle"
  /\ ListingStart("bonds", "bond", BondEmptyColumns)

BondsRow ==
  /\ pc = "bonds"
  /\ Len(locals.enriched) < Len(locals.positions)
  /\ \E resp \in BondInfoResponses :
       LET row == locals.positions[Len(locals.enriched) + 1]
           r == bond_info(row.ticker, resp)
       IN ListingRow(r, IF r.status = "ok" THEN bond_row(row, r.val) ELSE row)

BondsReturn ==
  /\ pc = "bonds"
  /\ ListingReturn("bonds", BondColumns, "monthly_coupon")

StocksStart ==
  /\ pc = "idle"
  /\ ListingStart("stocks", "share", StockColumns)

StocksRow ==
  /\ pc = "stocks"
  /\ Len(locals.enriched) < Len(locals.positions)
  /\ \E instruments \in InstrumentResponses, orderbook \in OrderBooks :
       LET row == locals.positions[Len(locals.enriched) + 1]
           r == IF row.ticker = <<>> THEN Raise("AttributeError", "upper", <<>>)
                ELSE get_current_price(row.ticker[1], instruments, orderbook)
       IN ListingRow(r, IF r.status = "ok" THEN stock_row(row, r.val) ELSE row)

StocksReturn ==
  /\ pc = "stocks"
  /\ ListingReturn("stocks", StockColumns, "unrealized_profit")

PlaceStopOrder ==
  /\ pc = "idle"
  /\ \E quantity \in Quantities, stop_price \in StopPrices, exec_price \in StopPrices,
        direction \in StopDirections, order_type \in StopOrderKinds,
        posted \in PostStopOrderResponses :
       Finish("_place_stop_order",
              [account_id |-> "acc1", figi |-> "BBG004730N88", quantity |-> quantity,
               stop_price |-> stop_price, exec_price |-> exec_price,
               direction |-> direction, order_type |-> order_type],
              [posted |-> posted],
              place_stop_order("acc1", "BBG004730N88", quantity, stop_price, exec_price,
                               direction, order_type, posted))

LongStopLoss ==
  /\ pc = "idle"
  /\ \E account \in AccountNames, ticker \in Tickers, stop_price \in StopPrices,
        exec_price \in StopPrices, quantity \in Quantities,
        accounts \in AccountResponses, instruments \in InstrumentResponses,
        posted \in PostStopOrderResponses :
       Finish("long_stop_loss",
              [account |-> account, ticker |-> ticker, stop_price |-> stop_price,
               exec_price |-> exec_price, quantity |-> quantity],
              [posted |-> posted],
              long_stop_loss(account, ticker, stop_price, exec_price, quantity,
                             accounts, instruments, posted))

LongTakeProfit ==
  /\ pc = "idle"
  /\ \E account \in AccountNames, ticker \in Tickers, stop_price \in StopPrices,
        exec_price \in StopPrices, quantity \in Quantities,
        accounts \in AccountResponses, instruments \in InstrumentResponses,
        posted \in PostStopOrderResponses :
       Finish("long_take_profit",
              [account |-> account, ticker |-> ticker, stop_price |-> stop_price,
               exec_price |-> exec_price, quantity |-> quantity],
              [posted |-> posted],
              long_take_profit(account, ticker, stop_price, exec_price, quantity,
                               accounts, instruments, posted))

ShortStopLoss ==
  /\ pc = "idle"
  /\ \E account \in AccountNames, ticker \in Tickers, stop_price \in StopPrices,
        exec_price \in StopPrices, quantity \in Quantities,
        accounts \in AccountResponses, instruments \in InstrumentResponses,
        posted \in PostStopOrderResponses :
       Finish("short_stop_loss",
              [account |-> account, ticker |-> ticker, stop_price |-> stop_price,
               exec_price |-> exec_price, quantity |-> quantity],
              [posted |-> posted],
              short_stop_loss(account, ticker, stop_price, exec_price, quantity,
                              accounts, instruments, posted))

ShortTakeProfit ==
  /\ pc = "idle"
  /\ \E account \in AccountNames, ticker \in Tickers, stop_price \in StopPrices,
        exec_price \in StopPrices, quantity \in Quantities,
        accounts \in AccountResponses, instruments \in InstrumentResponses,
        posted \in PostStopOrderResponses :
       Finish("short_take_profit",
              [account |-> account, ticker |-> ticker, stop_price |-> stop_price,
               exec_price |-> exec_price, quantity |-> quantity],
              [posted |-> posted],
              short_take_profit(account, ticker, stop_price, exec_price, quantity,
                                accounts, instruments, posted))

GetOrderState ==
  /\ pc = "idle"
  /\ \E account \in AccountNames, order_id \in {"R-1001", "R-1002"},
        accounts \in AccountResponses, state \in OrderStateResponses :
       Finish("get_order_state", [account |-> account, order_id |-> order_id],
              [state |-> state],
              get_order_state(account, order_id, accounts, state))

Return ==
  /\ pc = "done"
  /\ pc' = "idle"
  /\ op' = [name |-> "", args |-> [none |-> TRUE]]
  /\ locals' = NoLocals
  /\ log' = <<>>
  /\ result' = [status |-> "none", err |-> NoErr, val |-> <<>>]

Init ==
  /\ pc = "idle"
  /\ op = [name |-> "", args |-> [none |-> TRUE]]
  /\ locals = NoLocals
  /\ log = <<>>
  /\ result = [status |-> "none", err |-> NoErr, val |-> <<>>]

Next ==
  \/ GetAccounts
  \/ GetAccountId
  \/ Buy
  \/ Sell
  \/ ConvertCurrency
  \/ GetCurrentPrice
  \/ GetPositions
  \/ GetOperationsHistory
  \/ BondsStart
  \/ BondsRow
  \/ BondsReturn
  \/ StocksStart
  \/ StocksRow
  \/ StocksReturn
  \/ PlaceStopOrder
  \/ LongStopLoss
  \/ LongTakeProfit
  \/ ShortStopLoss
  \/ ShortTakeProfit
  \/ GetOrderState
  \/ GetHistoryStart
  \/ GetHistoryChunk
  \/ GetHistoryReturn
  \/ Return

Spec == Init /\ [][Next]_vars

Done(name) == pc = "done" /\ op.name = name

(***************************************************************************)
(* C1: buy and sell with quantity <= 0, or with a price that is given and  *)
(* <= 0, fail with a validation error, and no broker call of any kind      *)
(* (account listing, instrument lookup, order submission) was made before. *)
(***************************************************************************)
DoneOrder == Done("buy") \/ Done("sell")

InvalidOrder ==
  \/ op.args.quantity <= 0
  \/ op.args.price # <<>> /\ op.args.price[1] <= 0

ValidationError ==
  /\ result.status = "raise"
  /\ result.err.kind = "ValueError"
  /\ result.err.about \in {"quantity", "price"}

C1_InvalidOrderNoBrokerCall ==
  (DoneOrder /\ InvalidOrder) => (ValidationError /\ Calls(log) = <<>>)

(***************************************************************************)
(* C2: a buy or sell call that reaches submission submits exactly one      *)
(* order, of the quantity given (> 0): a market order with no price when   *)
(* the price is omitted, a limit order at exactly the price given          *)
(* otherwise; its direction is buy for buy and sell for sell; and when     *)
(* the broker accepts it the call returns the identifier the broker        *)
(* issued for it.                                                          *)
(***************************************************************************)
Submitted == CallsOf(log, "orders.post_order")

SubmittedOrder == Submitted[1].arg[1]

InHistory == pc = "get_history" \/ Done("get_history")

Requests ==
  LET c == CallsOf(log, "market_data.get_candles")
  IN [i \in 1..Len(c) |-> c[i].arg[1]]

WindowDays(interval) ==
  CASE interval = "1m" -> 1
    [] interval = "5m" -> 7
    [] interval \in {"15m", "1h"} -> 30
    [] interval = "1d" -> 365
    [] interval = "1w" -> 1825
    [] interval = "1mo" -> 3650

C3_RequestsPartitionSpan ==
  InHistory =>
    LET n == Len(Requests)
    IN /\ \A i \in 1..n :
            /\ Requests[i].from_ < Requests[i].to
            /\ Requests[i].to - Requests[i].from_ <= WindowDays(op.args.interval) * Day
            /\ Requests[i].to <= op.args.to_date
       /\ n > 0 => Requests[1].from_ = op.args.from_date
       /\ \A i \in 1..(n - 1) : Requests[i + 1].from_ = Requests[i].to
       /\ (Done("get_history") /\ result.status = "ok"
             /\ op.args.from_date < op.args.to_date)
            => (n > 0 /\ Requests[n].to = op.args.to_date)

\* A monthly history returned after three requests or more, the last one
\* shorter than the window.
C3_Witness ==
  /\ Done("get_history")
  /\ result.status = "ok"
  /\ op.args.interval = "1mo"
  /\ Len(Requests) >= 3
  /\ Requests[Len(Requests)].to - Requests[Len(Requests)].from_ < 3650 * Day

(***************************************************************************)
(* C4: whatever candles the broker returns over the chunks of one history  *)
(* call (the same timestamp from two adjacent chunks included), the table  *)
(* returned holds each distinct timestamp received exactly once, holds no  *)
(* timestamp that was not received, and is in non-decreasing time order.   *)
(***************************************************************************)
ReturnedTimes == [i \in 1..Len(result.val.rows) |-> result.val.rows[i].time]

Range(f) == {f[i] : i \in 1..Len(f)}

C4_HistoryDistinctSorted ==
  (Done("get_history") /\ result.status = "ok") =>
    /\ Range(ReturnedTimes) = Range(locals.received)
    /\ \A i, j \in 1..Len(ReturnedTimes) : i # j => ReturnedTimes[i] # ReturnedTimes[j]
    /\ \A i \in 1..(Len(ReturnedTimes) - 1) : ReturnedTimes[i] <= ReturnedTimes[i + 1]

\* A timestamp came from two adjacent chunks, and a chunk came out of order.
C4_Witness ==
  /\ Done("get_history")
  /\ result.status = "ok"
  /\ Len(Requests) >= 2
  /\ \E i \in 1..(Len(locals.received) - 1) :
       /\ locals.received[i] = Requests[1].to
       /\ locals.received[i + 1] = Requests[2].from_
  /\ \E i \in 1..(Len(locals.received) - 1) : locals.received[i] > locals.received[i + 1]
  /\ Len(ReturnedTimes) >= 2

(***************************************************************************)
(* C5: history with from = to asks the broker for no candles and returns   *)
(* an empty table of exactly the columns time, open, high, low, close,     *)
(* volume; the same empty table is returned when every chunk request       *)
(* returned no candles.                                                    *)
(***************************************************************************)
TypedEmptyHistory(df) ==
  /\ df.rows = <<>>
  /\ Len(df.columns) = 6
  /\ ColumnSet(df) = {"time", "open", "high", "low", "close", "volume"}

C5_EmptyHistoryKeepsColumns ==
  Done("get_history") =>
    /\ (op.args.from_date = op.args.to_date) =>
         /\ Requests = <<>>
         /\ (locals.figi # <<>> /\ op.args.interval \in _INTERVAL_MAP) => result.status = "ok"
    /\ (result.status = "ok" /\ locals.received = <<>>) => TypedEmptyHistory(result.val)

\* Three chunks or more were asked for, and none held a candle.
C5_Witness ==
  /\ Done("get_history")
  /\ result.status = "ok"
  /\ Len(Requests) >= 3
  /\ locals.received = <<>>
  /\ TypedEmptyHistory(result.val)

\* from = to: the call returned without a candle request.
C5_WitnessSameInstant ==
  /\ Done("get_history")
  /\ result.status = "ok"
  /\ op.args.from_date = op.args.to_date
  /\ Requests = <<>>

(***************************************************************************)
(* C6: current_price, for every combination of last trade price, best bid  *)
(* and best ask being present or absent in the order book: the last trade  *)
(* price when present; else the midpoint (bid + ask) / 2 when both sides   *)
(* are present; else the one side present; else an error naming the        *)
(* ticker.                                                                 *)
(***************************************************************************)
GotOrderBook ==
  /\ Done("get_current_price")
  /\ CallsOf(log, "market_data.get_order_book") # <<>>
  /\ locals.orderbook.ok

Returns(v) == result.status = "ok" /\ result.val = v

C6_CurrentPricePreference ==
  GotOrderBook =>
    LET book == locals.orderbook
        last == book.last_price
        bid == IF book.bids = <<>> THEN <<>> ELSE <<quotation_to_decimal(book.bids[1].price)>>
        ask == IF book.asks = <<>> THEN <<>> ELSE <<quotation_to_decimal(book.asks[1].price)>>
    IN CASE last # <<>> -> Returns(quotation_to_decimal(last[1]))
         [] last = <<>> /\ bid # <<>> /\ ask # <<>> ->
              result.status = "ok" /\ 2 * result.val = bid[1] + ask[1]
         [] last = <<>> /\ bid # <<>> /\ ask = <<>> -> Returns(bid[1])
         [] last = <<>> /\ bid = <<>> /\ ask # <<>> -> Returns(ask[1])
         [] last = <<>> /\ bid = <<>> /\ ask = <<>> ->
              /\ result.status = "raise"
              /\ result.err = [kind |-> "ValueError", about |-> op.args.ticker]

\* No last trade, both sides in the book: the midpoint was returned.
C6_Witness ==
  /\ GotOrderBook
  /\ locals.orderbook.last_price = <<>>
  /\ locals.orderbook.bids # <<>>
  /\ locals.orderbook.asks # <<>>
  /\ result.status = "ok"
  /\ result.val > quotation_to_decimal(locals.orderbook.bids[1].price)
  /\ result.val < quotation_to_decimal(locals.orderbook.asks[1].price)

(***************************************************************************)
(* C10: convert_currency with from and to naming the same currency returns *)
(* the amount given unchanged (1.0 when none is given), opens no broker    *)
(* session and makes no broker call.                                       *)
(***************************************************************************)
SameCurrency(a, b) ==
  \/ a = b
  \/ {a, b} = {"RUB", "rub"}
  \/ {a, b} = {"USD", "usd"}

C10_SameCurrencyIsIdentity ==
  (Done("convert_currency") /\ SameCurrency(op.args.from_currency, op.args.to_currency)) =>
    /\ result.status = "ok"
    /\ result.val = (IF op.args.amount = <<>> THEN TicksPerUnit ELSE op.args.amount[1])
    /\ log = <<>>

\* convert_currency("RUB", "RUB", 100) returned 100.
C10_Witness ==
  /\ Done("convert_currency")
  /\ op.args = [from_currency |-> "RUB", to_currency |-> "RUB", amount |-> <<100 * TicksPerUnit>>]
  /\ Returns(100 * TicksPerUnit)
  /\ Opens(log) = <<>>
  /\ Calls(log) = <<>>

(***************************************************************************)
(* C7: the bonds and stocks listings tolerate the faults of enriching a    *)
(* row: whichever of the filtered positions fail to be enriched, all of    *)
(* them included, the listing does not end in an error but returns a table *)
(* of exactly the rows that were enriched.                                 *)
(***************************************************************************)
DoneListing == (Done("bonds") \/ Done("stocks")) /\ locals.looped

EnrichedRows == {i \in 1..Len(locals.positions) : locals.enriched[i]}

C7_ListingSkipsFailedRows ==
  DoneListing =>
    /\ result.status = "ok"
    /\ Len(result.val.rows) = Cardinality(EnrichedRows)
    /\ {result.val.rows[i].ticker : i \in 1..Len(result.val.rows)}
         = {locals.positions[i].ticker : i \in EnrichedRows}

(***************************************************************************)
(* C8: every read operation that returns a table (list_accounts,           *)
(* positions, operations_history, history, bonds, stocks) returns, when    *)
(* the broker supplies zero rows, an empty table that still has the        *)
(* operation's fixed columns, and does not fail.                           *)
(***************************************************************************)
EmptyTableOf(columns) ==
  /\ result.status = "ok"
  /\ result.val.rows = <<>>
  /\ result.val.columns = columns

NoPositions == locals.resolved /\ locals.portfolio.ok /\ locals.portfolio.positions = <<>>

C8_EmptyTablesKeepColumns ==
  /\ (Done("get_accounts") /\ locals.resp.ok /\ locals.resp.accounts = <<>>)
       => EmptyTableOf(AccountColumns)
  /\ (Done("get_positions") /\ NoPositions) => EmptyTableOf(PositionColumns)
  /\ (Done("get_operations_history") /\ locals.resolved /\ locals.ops.ok
        /\ locals.ops.operations = <<>>)
       => EmptyTableOf(OperationColumns)
  /\ (Done("get_history") /\ result.status = "ok" /\ locals.received = <<>>)
       => EmptyTableOf(HistoryColumns)
  /\ (Done("bonds") /\ NoPositions) => EmptyTableOf(BondColumns)
  /\ (Done("stocks") /\ NoPositions) => EmptyTableOf(StockColumns)

(***************************************************************************)
(* C11: place_stop_order with a kind other than stop-loss or take-profit   *)
(* fails with a validation error and submits no stop order; every stop     *)
(* order that is submitted has a kind that is stop-loss or take-profit,    *)
(* and the "good till cancelled" expiration, whatever the other arguments. *)
(***************************************************************************)
StopSubmitted == CallsOf(log, "stop_orders.post_stop_order")

C11_StopOrderKindChecked ==
  /\ (Done("_place_stop_order") /\ op.args.order_type \notin {"STOP_LOSS", "TAKE_PROFIT"})
       => /\ result.status = "raise"
          /\ result.err = [kind |-> "ValueError", about |-> "order_type"]
          /\ StopSubmitted = <<>>
  /\ \A i \in 1..Len(StopSubmitted) :
       /\ StopSubmitted[i].arg[1].stop_order_type
            \in {"STOP_ORDER_TYPE_STOP_LOSS", "STOP_ORDER_TYPE_TAKE_PROFIT"}
       /\ StopSubmitted[i].arg[1].expiration_type
            = "STOP_ORDER_EXPIRATION_TYPE_GOOD_TILL_CANCEL"

\* A kind in lower case was refused, without a session.
C11_Witness ==
  /\ Done("_place_stop_order")
  /\ op.args.order_type = "stop_loss"
  /\ op.args.quantity <= 0
  /\ result.status = "raise"
  /\ log = <<>>

\* A take-profit of quantity 0 at a negative price was submitted.
C11_WitnessSubmitted ==
  /\ Done("_place_stop_order")
  /\ op.args.order_type = "TAKE_PROFIT"
  /\ op.args.quantity = 0
  /\ op.args.stop_price < 0
  /\ Len(StopSubmitted) = 1
  /\ result.status = "ok"

(***************************************************************************)
(* C9: resolve_account (get_account_id), whatever accounts the broker      *)
(* lists and whatever name is asked for, returns the identifier of the     *)
(* first listed account of exactly that name, and fails with a not-found   *)
(* error naming the query when no listed account has that name.            *)
(***************************************************************************)
Listed == locals.resp.ok /\ locals.resp.pf_fail = 0

MatchingAccounts ==
  {i \in 1..Len(locals.resp.accounts) : locals.resp.accounts[i].name = op.args.name}

C9_ResolveAccount ==
  (Done("get_account_id") /\ Listed) =>
    IF MatchingAccounts = {}
    THEN result.status = "raise" /\ result.err = [kind |-> "ValueError", about |-> op.args.name]
    ELSE /\ result.status = "ok"
         /\ \E i \in MatchingAccounts :
              /\ \A j \in MatchingAccounts : i <= j
              /\ result.val = locals.resp.accounts[i].id

(***************************************************************************)
(* C12: long_stop_loss submits (sell, stop-loss), long_take_profit submits *)
(* (sell, take-profit), short_stop_loss submits (buy, stop-loss) and       *)
(* short_take_profit submits (buy, take-profit): each short variant        *)
(* submits the direction opposite to that of the long variant of the same  *)
(* kind.                                                                   *)
(***************************************************************************)
StopEntryPoints ==
  {"long_stop_loss", "long_take_profit", "short_stop_loss", "short_take_profit"}

SubmittedStop == StopSubmitted[1].arg[1]

StopPair == <<SubmittedStop.direction, SubmittedStop.stop_order_type>>

C12_StopDirectionAndKind ==
  (pc = "done" /\ op.name \in StopEntryPoints /\ StopSubmitted # <<>>) =>
    /\ Len(StopSubmitted) = 1
    /\ Done("long_stop_loss") =>
         StopPair = <<"STOP_ORDER_DIRECTION_SELL", "STOP_ORDER_TYPE_STOP_LOSS">>
    /\ Done("long_take_profit") =>
         StopPair = <<"STOP_ORDER_DIRECTION_SELL", "STOP_ORDER_TYPE_TAKE_PROFIT">>
    /\ Done("short_stop_loss") =>
         StopPair = <<"STOP_ORDER_DIRECTION_BUY", "STOP_ORDER_TYPE_STOP_LOSS">>
    /\ Done("short_take_profit") =>
         StopPair = <<"STOP_ORDER_DIRECTION_BUY", "STOP_ORDER_TYPE_TAKE_PROFIT">>

\* A short stop-loss was submitted and the broker accepted it.
C12_Witness ==
  /\ Done("short_stop_loss")
  /\ Len(StopSubmitted) = 1
  /\ SubmittedStop.direction = "STOP_ORDER_DIRECTION_BUY"
  /\ result.status = "ok"
  /\ result.val = locals.posted.stop_order_id

(***************************************************************************)
(* C13: for any sequence of wrapper operations and any broker outcome      *)
(* (success, or a failure the broker reports at any call), every broker    *)
(* session an operation opens is closed before the operation returns or    *)
(* raises: no session is open between calls, and every broker call is made *)
(* in a session that the operation making it has opened and not yet        *)
(* closed, so none is made in a session of an earlier operation.           *)
(***************************************************************************)
Closes(l) == SelectSeq(l, LAMBDA e : e.ev = "close")

\* The sessions open after the first i interactions of the operation.
OpenSessions(i) == Len(Opens(SubSeq(log, 1, i))) - Len(Closes(SubSeq(log, 1, i)))

C13_SessionsClosedOnExit ==
  /\ \A i \in 1..Len(log) :
       /\ log[i].ev = "close" => OpenSessions(i - 1) >= 1
       /\ log[i].ev = "call" => OpenSessions(i) >= 1
  /\ pc = "done" => OpenSessions(Len(log)) = 0
  /\ pc = "idle" => log = <<>>

\* get_positions raised the broker's failure of a ticker lookup, made in a
\* session nested in that of the portfolio request, after an earlier lookup
\* had succeeded.
C13_Witness ==
  /\ Done("get_positions")
  /\ result.status = "raise"
  /\ result.err.kind = "RequestError"
  /\ Len(CallsOf(log, "instruments.get_instrument_by")) >= 2
  /\ \E i \in 1..Len(log) : OpenSessions(i) = 2
  /\ OpenSessions(Len(log)) = 0

\* get_history raised the broker's failure of a later chunk.
C13_WitnessHistory ==
  /\ Done("get_history")
  /\ result.status = "raise"
  /\ Len(CallsOf(log, "market_data.get_candles")) >= 2
  /\ OpenSessions(Len(log)) = 0

=============================================================================
